---------------------------- MODULE Spec2Model ----------------------------
(***************************************************************************)
(* Model of agent/collector.py: the journalctl command builder and line    *)
(* parser (JournalLogCollector), the size conversion (unit_conversion) and *)
(* the system metric readers (SystemDataCollector).                        *)
(*                                                                         *)
(* Text is modelled as a sequence of one-character strings wherever the    *)
(* code inspects characters (regular expressions, slicing, splitting), and *)
(* as a TLA+ string where the code only concatenates it.                   *)
(***************************************************************************)
EXTENDS Integers, Sequences, FiniteSets, TLC

VARIABLES
    \* JournalLogCollector: the option map and its observation
    args,      \* self.args: an insertion-ordered dict, as a sequence of entries
    hist,      \* the set_* calls made since construction or the last clean()
    old,       \* self.args as it was before the last operation
    last,      \* the last operation called on the collector
    cfg,       \* the config object of the last set_from_config call
    err,       \* the exception the last operation raised, or "none"
    \* JournalLogCollector.collect
    cpc,       \* position in collect(): "start", "loop", "done"
    src,       \* the lines the journalctl process wrote
    raw,       \* raw_data decoded: the characters of stdout
    lines,     \* str(raw_data).split('\n')
    idx,       \* the index of the next line __parse_lines reads
    out,       \* the list __parse_lines builds
    cerr,      \* the exception that escaped collect(), or "none"
    \* unit_conversion
    upc,       \* "new", "arg" once the argument is chosen, "ret" after the call
    number,    \* the argument
    uresult,   \* the value returned
    uraised,   \* the exception that escaped, or "none"
    \* SystemDataCollector
    spc,       \* "idle" between operations, "done" at the end of one, or the
               \* position in interface_load
    sop,       \* the operation that runs or ran last
    fault,     \* what went wrong in the environment during it, or "none"
    now,       \* seconds slept since the operation started
    counters1, \* the interfaces and their counters when netstat ran first,
    counters2, \* and when it ran second
    first_list,
    second_list,
    t_first,   \* the time of the first, and of the second netstat sample
    t_second,
    report,    \* the file systems df reported to drive_space
    sresult,   \* the value the operation returned
    outcome    \* how the operation ended: a return or a raise

logVars == <<args, hist, old, last, cfg, err>>
colVars == <<cpc, src, raw, lines, idx, out, cerr>>
unitVars == <<upc, number, uresult, uraised>>
sysVars == <<spc, sop, fault, now, counters1, counters2, first_list, second_list,
             t_first, t_second, report, sresult, outcome>>
vars == <<logVars, colVars, unitVars, sysVars>>

-----------------------------------------------------------------------------
(* Helpers on sequences *)

Range(s) == {s[i] : i \in 1..Len(s)}

SeqsUpTo(S, n) == UNION {[1..k -> S] : k \in 0..n}

Min(a, b) == IF a <= b THEN a ELSE b

-----------------------------------------------------------------------------
(* JournalLogCollector: the option map *)

\* A value of the option map: None, an int or a str.
None == [kind |-> "none", i |-> 0, s |-> ""]
IntV(n) == [kind |-> "int", i |-> n, s |-> ""]
StrV(t) == [kind |-> "str", i |-> 0, s |-> t]

\* class Priority(enum.Enum)
Priority ==
    [EMERGENCY |-> 0, ALERT |-> 1, CRITICAL |-> 2, ERROR |-> 3,
     WARNING |-> 4, NOTICE |-> 5, INFO |-> 6, DEBUG |-> 7]

\* A dict that moves a rewritten key to the end (an OrderedDict with
\* move_to_end), in place of the builtin dict.
DictSetMoveToEnd(d, k, v) ==
    Append(SelectSeq(d, LAMBDA e : e.key # k), [key |-> k, val |-> v])

\* d[k] = v on a dict: an existing key keeps its place, a new one goes last.
DictSet(d, k, v) ==
    IF \E i \in 1..Len(d) : d[i].key = k
    THEN [i \in 1..Len(d) |-> IF d[i].key = k THEN [key |-> k, val |-> v] ELSE d[i]]
    ELSE Append(d, [key |-> k, val |-> v])

HasKey(d, k) == \E i \in 1..Len(d) : d[i].key = k

Lookup(d, k) == d[CHOOSE i \in 1..Len(d) : d[i].key = k].val

Keys(d) == [i \in 1..Len(d) |-> d[i].key]

\* str(value)
Str(v) == IF v.kind = "int" THEN ToString(v.i) ELSE v.s

set_output_args(d, output) == DictSet(d, "--output", StrV(output))

\* __init_args, applied to the dict d
init_args(d) == set_output_args(DictSet(d, "--no-pager", None), "short-iso")

set_priority_args(d, p) == DictSet(d, "-p", IntV(Priority[p]))

set_limit_args(d, n) == DictSet(d, "-n", IntV(n))

set_reverse_args(d) == DictSet(d, "-r", None)

\* set_utc pasted from set_reverse with the key left unchanged
set_utc_writes_reverse(d) == DictSet(d, "-r", None)

set_utc_args(d) == DictSet(d, "--utc", None)

set_since_date_args(d, date) == DictSet(d, "--since", StrV("'" \o date \o "'"))

\* The string __args_to_string builds, as the pieces it concatenates.
RECURSIVE args_to_string_from(_, _, _)
args_to_string_from(d, i, str_) ==
    IF i > Len(d) THEN str_
    ELSE args_to_string_from(d, i + 1,
            IF d[i].val.kind # "none"
            THEN str_ \o <<" ", d[i].key, " ", Str(d[i].val)>>
            ELSE str_ \o <<" ", d[i].key>>)

\* __args_to_string
args_to_string(d) == args_to_string_from(d, 1, <<"journalctl">>)

\* The characters of a string built from pieces
RECURSIVE Text(_)
Text(pieces) == IF pieces = <<>> THEN "" ELSE Head(pieces) \o Text(Tail(pieces))

\* clean() with the clear() forgotten
clean_no_clear(d) == init_args(d)

\* clean
clean_args(d) == init_args(<<>>)

\* set_from_config that sets the limit before it looks the priority up
set_from_config_limit_first(d, config) ==
    IF config.priority \notin DOMAIN Priority
    THEN [args |-> set_limit_args(d, config.limit), err |-> "KeyError"]
    ELSE LET d2 == set_limit_args(set_priority_args(d, config.priority), config.limit)
         IN  [args |-> IF config.reverse THEN set_reverse_args(d2) ELSE d2,
              err |-> "none"]

\* set_from_config: Priority[config.priority] raises KeyError before any
\* option is written.
set_from_config_args(d, config) ==
    IF config.priority \notin DOMAIN Priority
    THEN [args |-> d, err |-> "KeyError"]
    ELSE LET d1 == set_priority_args(d, config.priority)
             d2 == set_limit_args(d1, config.limit)
         IN  [args |-> IF config.reverse THEN set_reverse_args(d2) ELSE d2,
              err |-> "none"]

\* The calls set_from_config makes when the lookup succeeds
ConfigCalls(config) ==
    <<[op |-> "set_priority", arg |-> StrV(config.priority)],
      [op |-> "set_limit", arg |-> IntV(config.limit)]>>
    \o (IF config.reverse THEN <<[op |-> "set_reverse", arg |-> None]>> ELSE <<>>)

(* Inputs of the option setters *)
MaxCalls == 3

PriorityInputs == {"EMERGENCY", "ERROR", "DEBUG"}
LimitInputs == {10, 50}
OutputInputs == {"json", "short"}
DateInputs == {"2017-11-30 00:34:03.942249"}
ConfigInputs ==
    [priority : {"ERROR", "WARNING", "VERBOSE"}, limit : {5, 50}, reverse : BOOLEAN]
NoConfig == [priority |-> "", limit |-> 0, reverse |-> FALSE]

LogInit ==
    /\ args = init_args(<<>>)
    /\ hist = <<>>
    /\ old = <<>>
    /\ last = "__init__"
    /\ cfg = NoConfig
    /\ err = "none"

\* A setter call: op with input arg turns the dict into d.
Setter(op, arg, d) ==
    /\ Len(hist) < MaxCalls
    /\ args' = d
    /\ hist' = Append(hist, [op |-> op, arg |-> arg])
    /\ old' = args
    /\ last' = op
    /\ cfg' = NoConfig
    /\ err' = "none"
    /\ UNCHANGED <<colVars, unitVars, sysVars>>

SetPriority == \E p \in PriorityInputs :
    Setter("set_priority", StrV(p), set_priority_args(args, p))

SetLimit == \E n \in LimitInputs :
    Setter("set_limit", IntV(n), set_limit_args(args, n))

SetReverse == Setter("set_reverse", None, set_reverse_args(args))

SetUtc == Setter("set_utc", None, set_utc_args(args))

SetOutput == \E o \in OutputInputs :
    Setter("set_output", StrV(o), set_output_args(args, o))

SetSinceDate == \E d \in DateInputs :
    Setter("set_since_date", StrV(d), set_since_date_args(args, d))

Clean ==
    /\ args' = clean_args(args)
    /\ hist' = <<>>
    /\ old' = args
    /\ last' = "clean"
    /\ cfg' = NoConfig
    /\ err' = "none"
    /\ UNCHANGED <<colVars, unitVars, sysVars>>

SetFromConfig == \E config \in ConfigInputs :
    LET r == set_from_config_args(args, config) IN
    /\ Len(hist) < MaxCalls
    /\ args' = r.args
    /\ err' = r.err
    /\ hist' = IF r.err = "none" THEN hist \o ConfigCalls(config) ELSE hist
    /\ old' = args
    /\ last' = "set_from_config"
    /\ cfg' = config
    /\ UNCHANGED <<colVars, unitVars, sysVars>>

LogNext ==
    \/ SetPriority
    \/ SetLimit
    \/ SetReverse
    \/ SetUtc
    \/ SetOutput
    \/ SetSinceDate
    \/ Clean
    \/ SetFromConfig

-----------------------------------------------------------------------------
(* Properties of the option map *)

\* The flag each setter writes, and the value it stores for its input.
FlagOf(op) ==
    CASE op = "set_priority" -> "-p"
      [] op = "set_limit" -> "-n"
      [] op = "set_reverse" -> "-r"
      [] op = "set_utc" -> "--utc"
      [] op = "set_output" -> "--output"
      [] op = "set_since_date" -> "--since"

ValueOf(call) ==
    CASE call.op = "set_priority" -> IntV(Priority[call.arg.s])
      [] call.op = "set_limit" -> call.arg
      [] call.op = "set_reverse" -> None
      [] call.op = "set_utc" -> None
      [] call.op = "set_output" -> call.arg
      [] call.op = "set_since_date" -> StrV("'" \o call.arg.s \o "'")

SetterOps ==
    {"set_priority", "set_limit", "set_reverse", "set_utc", "set_output",
     "set_since_date"}

AllFlags == {"--no-pager", "--output", "-p", "-n", "-r", "--utc", "--since"}

\* The two options of a fresh collector
Defaults ==
    <<[key |-> "--no-pager", val |-> None],
      [key |-> "--output", val |-> StrV("short-iso")]>>

\* The writes since construction or clean(): the defaults, then the calls.
Writes ==
    Defaults \o [i \in 1..Len(hist) |->
                    [key |-> FlagOf(hist[i].op), val |-> ValueOf(hist[i])]]

\* s without the repeats of an element: each element at its first place.
RECURSIVE FirstOccurrences(_)
FirstOccurrences(s) ==
    IF s = <<>> THEN <<>>
    ELSE LET r == FirstOccurrences(SubSeq(s, 1, Len(s) - 1))
         IN  IF s[Len(s)] \in Range(r) THEN r ELSE Append(r, s[Len(s)])

LastWritten(w, flag) ==
    w[CHOOSE i \in 1..Len(w) :
        /\ w[i].key = flag
        /\ \A j \in (i + 1)..Len(w) : w[j].key # flag].val

\* The flags of a rendered command, in the order they stand in it
FlagsIn(pieces) == SelectSeq(pieces, LAMBDA x : x \in AllFlags)

PlaceIn(s, x) == CHOOSE i \in 1..Len(s) : s[i] = x

\* The command as the writes determine it: each flag once, where it was
\* first written, with the value written last.
RECURSIVE Rendering(_, _)
Rendering(order, w) ==
    IF order = <<>> THEN <<"journalctl">>
    ELSE LET f == order[Len(order)]
             v == LastWritten(w, f)
             sofar == Rendering(SubSeq(order, 1, Len(order) - 1), w)
         IN  IF v.kind = "none" THEN sofar \o <<" ", f>>
             ELSE sofar \o <<" ", f, " ", IF v.kind = "int" THEN ToString(v.i) ELSE v.s>>

\* C1 as stated: the flags of the set_* calls stand in the rendered command
\* in the order of the calls that (first) set them.
C1_FlagsInCallOrder ==
    LET called == FirstOccurrences([i \in 1..Len(hist) |-> FlagOf(hist[i].op)])
        shown == FlagsIn(args_to_string(args))
    IN  \A i, j \in 1..Len(called) :
            i < j => PlaceIn(shown, called[i]) < PlaceIn(shown, called[j])

\* C1 amended: the flags of the rendered command stand in the order in which
\* they were first written into the option map since construction or clean(),
\* --no-pager and --output (written by __init_args) first, so a set_output
\* call or a repeated call moves nothing; and the command is a function of
\* the call sequence alone.
C1_FlagsInFirstWriteOrder ==
    LET order == FirstOccurrences(Keys(Writes))
    IN  /\ FlagsIn(args_to_string(args)) = order
        /\ args_to_string(args) = Rendering(order, Writes)

C1_Witness ==
    /\ Len(hist) = 3
    /\ hist[1].op = "set_limit"
    /\ hist[2].op = "set_output"
    /\ hist[3].op = "set_limit"
    /\ hist[3].arg # hist[1].arg
    /\ Text(args_to_string(args)) = "journalctl --no-pager --output json -n 50"

\* C2: every flag occurs once in the option map with the value written last
\* (the defaults overlaid with the calls), and a set_* call writes its own
\* flag and leaves every other entry as it was.
C2_LastWriteWins ==
    /\ \A i, j \in 1..Len(args) : args[i].key = args[j].key => i = j
    /\ \A f \in AllFlags :
        /\ HasKey(args, f) <=> f \in Range(Keys(Writes))
        /\ HasKey(args, f) => Lookup(args, f) = LastWritten(Writes, f)
    /\ last \in SetterOps =>
        /\ HasKey(args, FlagOf(last))
        /\ Lookup(args, FlagOf(last)) = ValueOf(hist[Len(hist)])
        /\ \A f \in AllFlags \ {FlagOf(last)} :
            /\ HasKey(args, f) <=> HasKey(old, f)
            /\ HasKey(old, f) => Lookup(args, f) = Lookup(old, f)

C2_Witness ==
    /\ Len(hist) = 3
    /\ hist[1] = [op |-> "set_priority", arg |-> StrV("ERROR")]
    /\ hist[2].op = "set_since_date"
    /\ hist[3] = [op |-> "set_priority", arg |-> StrV("DEBUG")]
    /\ Lookup(args, "-p") = IntV(7)
    /\ Lookup(args, "--since") = StrV("'2017-11-30 00:34:03.942249'")
    /\ Len(args) = 4

\* C3: clean() raises nothing and leaves exactly the two defaults, the option
\* map of a fresh collector.
C3_CleanRestoresDefaults ==
    last = "clean" => err = "none" /\ args = Defaults

C3_Witness ==
    /\ last = "clean"
    /\ Len(old) = 5
    /\ HasKey(old, "-r")
    /\ Lookup(old, "--output") = StrV("json")
    /\ args = Defaults

\* C4: set_from_config writes -p, -n and (when asked) -r from the config,
\* and with an unknown priority name raises KeyError and changes nothing.
C4_SetFromConfig ==
    last = "set_from_config" =>
        IF cfg.priority \in DOMAIN Priority
        THEN /\ err = "none"
             /\ Lookup(args, "-p") = IntV(Priority[cfg.priority])
             /\ Lookup(args, "-n") = IntV(cfg.limit)
             /\ cfg.reverse => HasKey(args, "-r") /\ Lookup(args, "-r") = None
             /\ ~cfg.reverse => (HasKey(args, "-r") <=> HasKey(old, "-r"))
             /\ \A f \in AllFlags \ {"-p", "-n", "-r"} :
                    /\ HasKey(args, f) <=> HasKey(old, f)
                    /\ HasKey(old, f) => Lookup(args, f) = Lookup(old, f)
             /\ (old = Defaults /\ cfg = [priority |-> "ERROR", limit |-> 50,
                                          reverse |-> TRUE])
                  => args = Defaults \o <<[key |-> "-p", val |-> IntV(3)],
                                          [key |-> "-n", val |-> IntV(50)],
                                          [key |-> "-r", val |-> None]>>
        ELSE err = "KeyError" /\ args = old

C4_Witness ==
    /\ last = "set_from_config"
    /\ cfg.priority = "VERBOSE"
    /\ err = "KeyError"
    /\ Len(old) = 4
    /\ args = old

-----------------------------------------------------------------------------
(* JournalLogCollector.collect: the line parser *)

\* What \s matches; \S matches every other character.
WhiteSpace == {" ", "\t", "\n", "\r", "\f"}

IsNonSpace(c) == c \notin WhiteSpace

\* s.split(sep) for a one-character separator: the pieces between the
\* places of sep, one more than there are separators
Split(s, sep) ==
    LET at == {i \in 1..Len(s) : s[i] = sep}
        nth(k) == CHOOSE p \in at : Cardinality({q \in at : q < p}) = k - 1
        n == Cardinality(at)
    IN  [k \in 1..(n + 1) |->
            SubSeq(s, IF k = 1 THEN 1 ELSE nth(k - 1) + 1,
                      IF k = n + 1 THEN Len(s) ELSE nth(k) - 1)]

\* sep.join(parts)
RECURSIVE Join(_, _)
Join(parts, sep) ==
    IF parts = <<>> THEN <<>>
    ELSE IF Len(parts) = 1 THEN parts[1]
    ELSE parts[1] \o sep \o Join(Tail(parts), sep)

\* The place after the longest run of \S characters that starts at i
RECURSIVE RunEnd(_, _)
RunEnd(line, i) ==
    IF i <= Len(line) /\ IsNonSpace(line[i]) THEN RunEnd(line, i + 1) ELSE i

\* The place after the longest run of characters '.' matches from i
RECURSIVE DotStarEnd(_, _)
DotStarEnd(line, i) ==
    IF i <= Len(line) /\ line[i] # "\n" THEN DotStarEnd(line, i + 1) ELSE i

NoMatch == [found |-> FALSE, groups |-> <<>>]

\* (\S+): (.*) with the third group from b3, tried at its longest first:
\* e3 is the place after the group.
RECURSIVE TryGroup3(_, _, _, _, _)
TryGroup3(line, b3, e3, g1, g2) ==
    IF e3 <= b3 THEN NoMatch
    ELSE IF e3 + 1 <= Len(line) /\ line[e3] = ":" /\ line[e3 + 1] = " "
    THEN [found |-> TRUE,
          groups |-> <<g1, g2, SubSeq(line, b3, e3 - 1),
                       SubSeq(line, e3 + 2, DotStarEnd(line, e3 + 2) - 1)>>]
    ELSE TryGroup3(line, b3, e3 - 1, g1, g2)

\* (\S+) (\S+): (.*) with the second group from b2
RECURSIVE TryGroup2(_, _, _, _)
TryGroup2(line, b2, e2, g1) ==
    IF e2 <= b2 THEN NoMatch
    ELSE LET r == IF e2 <= Len(line) /\ line[e2] = " "
                  THEN TryGroup3(line, e2 + 1, RunEnd(line, e2 + 1), g1,
                                 SubSeq(line, b2, e2 - 1))
                  ELSE NoMatch
         IN  IF r.found THEN r ELSE TryGroup2(line, b2, e2 - 1, g1)

\* The whole pattern with the first group from b1
RECURSIVE TryGroup1(_, _, _)
TryGroup1(line, b1, e1) ==
    IF e1 <= b1 THEN NoMatch
    ELSE LET r == IF e1 <= Len(line) /\ line[e1] = " "
                  THEN TryGroup2(line, e1 + 1, RunEnd(line, e1 + 1),
                                 SubSeq(line, b1, e1 - 1))
                  ELSE NoMatch
         IN  IF r.found THEN r ELSE TryGroup1(line, b1, e1 - 1)

\* The pattern anchored at the start of the line (re.match)
MatchAtStart(line) == TryGroup1(line, 1, RunEnd(line, 1))

\* re.search: the match at the leftmost place that has one
RECURSIVE SearchFrom(_, _)
SearchFrom(line, s) ==
    IF s > Len(line) THEN NoMatch
    ELSE LET r == TryGroup1(line, s, RunEnd(line, s))
         IN  IF r.found THEN r ELSE SearchFrom(line, s + 1)

\* re.search('(\S+) (\S+) (\S+): (.*)', line)
Search(line) == SearchFrom(line, 1)

\* The exceptions the loop body of __parse_lines catches
ParseLineCatches == {"AttributeError"}

\* One pass of the loop of __parse_lines: a.group(1) on a = None raises
\* AttributeError.
parse_line(line, acc) ==
    LET a == Search(line)
        raised == IF a.found THEN "none" ELSE "AttributeError"
    IN  [out |-> IF a.found THEN Append(acc, a.groups) ELSE acc,
         exc |-> IF raised \in ParseLineCatches THEN "none" ELSE raised]

(* The output of the journalctl process *)
MaxLineLen == 9
MaxLines == 3

LineAlphabet == {"a", ":", " "}

\* Every line of at most MaxLineLen characters
GenLines == SeqsUpTo(LineAlphabet, MaxLineLen)

\* A line of the shape '<timestamp> <hostname> <process>: <message>'
FixtureLine(p) == p.ts \o <<" ">> \o p.host \o <<" ">> \o p.proc \o <<":", " ">> \o p.msg

\* Timestamps of one token and of three ('lis 29 20:41:29'), and messages
\* without and with ': ' in them ('  node   0: [mem ...]').
FixtureParts ==
    [ts : {<<"t", ":", "t">>, <<"l", " ", "2", " ", "t", ":", "t">>},
     host : {<<"h">>},
     proc : {<<"k">>},
     msg : {<<"m">>, <<" ", "n", " ", "0", ":", " ", "m">>}]

FixtureLines == {FixtureLine(p) : p \in FixtureParts}

\* Lines the pattern does not match: empty, two tokens, a tab for a space
NoiseLines == {<<>>, <<"-", "-", " ", "m">>, <<"t", "\t", "h", " ", "k", ":", " ", "m">>}

SampleLines == FixtureLines \cup NoiseLines

\* What the process writes: one arbitrary short line, or up to MaxLines
\* lines of the samples.
Outputs ==
    {<<l>> : l \in GenLines} \cup (SeqsUpTo(SampleLines, MaxLines) \ {<<>>})

\* collect, lines 80-81: run the command, decode stdout, split it in lines.
Communicate ==
    /\ cpc = "start"
    /\ \E written \in Outputs :
        /\ src' = written
        /\ raw' = Join(written, <<"\n">>)
        /\ lines' = Split(raw', "\n")
    /\ cpc' = "loop"
    /\ UNCHANGED <<idx, out, cerr>>
    /\ UNCHANGED <<logVars, unitVars, sysVars>>

\* stdout is not UTF-8: str(raw_data, 'utf-8') raises.
CommunicateUndecodable ==
    /\ cpc = "start"
    /\ cpc' = "raised"
    /\ cerr' = "UnicodeDecodeError"
    /\ UNCHANGED <<src, raw, lines, idx, out>>
    /\ UNCHANGED <<logVars, unitVars, sysVars>>

\* __parse_lines: one pass of the for loop
ParseLine ==
    /\ cpc = "loop"
    /\ idx <= Len(lines)
    /\ LET r == parse_line(lines[idx], out) IN
        /\ out' = r.out
        /\ cerr' = r.exc
        /\ cpc' = IF r.exc = "none" THEN "loop" ELSE "raised"
    /\ idx' = idx + 1
    /\ UNCHANGED <<src, raw, lines>>
    /\ UNCHANGED <<logVars, unitVars, sysVars>>

\* __parse_lines returns out, and collect returns it.
CollectReturn ==
    /\ cpc = "loop"
    /\ idx > Len(lines)
    /\ cpc' = "done"
    /\ UNCHANGED <<src, raw, lines, idx, out, cerr>>
    /\ UNCHANGED <<logVars, unitVars, sysVars>>

ColNext ==
    \/ Communicate
    \/ CommunicateUndecodable
    \/ ParseLine
    \/ CollectReturn

(* Properties of collect *)

IsToken(line, i, j) == i <= j /\ \A k \in i..j : line[k] \notin WhiteSpace

\* The line holds 'token token token: ' somewhere.
Matches(line) ==
    \E a \in 1..Len(line) : \E b \in (a + 1)..Len(line) :
        /\ IsToken(line, a, b - 1) /\ line[b] = " "
        /\ \E c \in (b + 2)..Len(line) :
            /\ IsToken(line, b + 1, c - 1) /\ line[c] = " "
            /\ \E d \in (c + 2)..(Len(line) - 1) :
                IsToken(line, c + 1, d - 1) /\ line[d] = ":" /\ line[d + 1] = " "

IsSuffix(s, line) ==
    Len(s) <= Len(line) /\ SubSeq(line, Len(line) - Len(s) + 1, Len(line)) = s

\* rec is a record of the line: four fields, the first three of them
\* tokens, that the line ends with when they are put together again.
IsRecordOf(rec, line) ==
    /\ Len(rec) = 4
    /\ \A k \in 1..3 : IsToken(rec[k], 1, Len(rec[k]))
    /\ IsSuffix(rec[1] \o <<" ">> \o rec[2] \o <<" ">> \o rec[3] \o <<":", " ">> \o rec[4],
                line)

\* C5: collect raises nothing on any sequence of lines; the records read so
\* far are, in order, one for each matching line read so far and none for
\* the other lines.
C5_OneRecordPerMatchingLine ==
    cpc \in {"loop", "done", "raised"} /\ cerr # "UnicodeDecodeError" =>
        LET read == SubSeq(src, 1, idx - 1)
            matching == SelectSeq(read, Matches)
        IN  /\ cerr = "none"
            /\ cpc = "done" => idx = Len(src) + 1
            /\ Len(out) = Len(matching)
            /\ \A i \in 1..Len(out) : IsRecordOf(out[i], matching[i])

C5_Witness ==
    /\ cpc = "done"
    /\ Len(src) = 3
    /\ Len(out) = 1
    /\ ~Matches(src[1])
    /\ Matches(src[2])
    /\ src[3] = <<>>

\* C6 as stated: every line of the fixture's shape gives the record
\* (timestamp, hostname, process, message), and none is dropped.
C6_FixtureRecords ==
    cpc = "done" /\ (\A i \in 1..Len(src) : src[i] \in FixtureLines) =>
        /\ Len(out) = Len(src)
        /\ \A i \in 1..Len(src) : \A p \in FixtureParts :
            src[i] = FixtureLine(p) => out[i] = <<p.ts, p.host, p.proc, p.msg>>

-----------------------------------------------------------------------------
(* unit_conversion *)

(* A float is modelled by the exact value sig * 2^e2 * 5^e5, sig divisible  *)
(* neither by 2 nor by 5 (0 is sig = 0, e2 = e5 = 0): every decimal numeral *)
(* and every product of one with a power of two has exactly one such form.  *)
(* Multiplying a float by a power of two is exact, so two results are equal *)
(* as floats whenever they are equal here.                                  *)
RECURSIVE Canonical(_, _, _)
Canonical(sig, e2, e5) ==
    IF sig = 0 THEN [sig |-> 0, e2 |-> 0, e5 |-> 0]
    ELSE IF sig % 2 = 0 THEN Canonical(sig \div 2, e2 + 1, e5)
    ELSE IF sig % 5 = 0 THEN Canonical(sig \div 5, e2, e5 + 1)
    ELSE [sig |-> sig, e2 |-> e2, e5 |-> e5]

\* The float of the decimal numeral sig * 10^-dec
Decimal(sig, dec) == Canonical(sig, 0 - dec, 0 - dec)

\* x * 2^k
TimesPow2(x, k) == IF x.sig = 0 THEN x ELSE [x EXCEPT !.e2 = @ + k]

Digits == {"0", "1", "2", "3", "4", "5", "6", "7", "8", "9"}

DigitValue(c) ==
    CASE c = "0" -> 0 [] c = "1" -> 1 [] c = "2" -> 2 [] c = "3" -> 3 [] c = "4" -> 4
      [] c = "5" -> 5 [] c = "6" -> 6 [] c = "7" -> 7 [] c = "8" -> 8 [] c = "9" -> 9

\* The number a string of digits stands for
RECURSIVE NumeralValue(_)
NumeralValue(s) ==
    IF s = <<>> THEN 0
    ELSE 10 * NumeralValue(SubSeq(s, 1, Len(s) - 1)) + DigitValue(s[Len(s)])

\* str_num.replace(',', '.')
ReplaceComma(s) == [i \in 1..Len(s) |-> IF s[i] = "," THEN "." ELSE s[i]]

NotAFloat == [ok |-> FALSE, val |-> Decimal(0, 0)]

\* float(s) from place i on: digits with at most one point and at least one
\* digit; sig and dec are the numeral read so far.
RECURSIVE ScanFloat(_, _, _, _, _, _, _)
ScanFloat(s, i, sign, sig, dec, point, ndigits) ==
    IF i > Len(s)
    THEN IF ndigits > 0 THEN [ok |-> TRUE, val |-> Decimal(sign * sig, dec)]
         ELSE NotAFloat
    ELSE IF s[i] \in Digits
    THEN ScanFloat(s, i + 1, sign, 10 * sig + DigitValue(s[i]),
                   IF point THEN dec + 1 ELSE dec, point, ndigits + 1)
    ELSE IF s[i] = "." /\ ~point
    THEN ScanFloat(s, i + 1, sign, sig, dec, TRUE, ndigits)
    ELSE NotAFloat

\* float(s), for s of signs, digits, points and other characters that
\* cannot stand in a numeral; ok = FALSE is ValueError.
ParseFloat(s) ==
    IF s # <<>> /\ s[1] \in {"-", "+"}
    THEN ScanFloat(s, 2, IF s[1] = "-" THEN 0 - 1 ELSE 1, 0, 0, FALSE, 0)
    ELSE ScanFloat(s, 1, 1, 0, 0, FALSE, 0)

\* The dict case, as powers of two: 0.0009765625 = 2^-10, 1048576.0 = 2^20
case_ == [K |-> 0 - 10, M |-> 0, G |-> 10, T |-> 20]

\* except (KeyError, IndexError): with ValueError left out
UnitCatchesNoValueError == {"KeyError", "IndexError"}

\* except (KeyError, IndexError, ValueError):
UnitCatches == {"KeyError", "IndexError", "ValueError"}

\* The body of the try block: the value returned or the exception raised
unit_conversion_try(n) ==
    IF n = <<>> THEN [exc |-> "IndexError", val |-> Decimal(0, 0)]
    ELSE LET unit == n[Len(n)]
             str_num == ReplaceComma(SubSeq(n, 1, Len(n) - 1))
             num == ParseFloat(str_num)
         IN  IF ~num.ok THEN [exc |-> "ValueError", val |-> Decimal(0, 0)]
             ELSE IF unit \notin DOMAIN case_
             THEN [exc |-> "KeyError", val |-> Decimal(0, 0)]
             ELSE [exc |-> "none", val |-> TimesPow2(num.val, case_[unit])]

\* unit_conversion
unit_conversion(n) ==
    LET r == unit_conversion_try(n)
    IN  IF r.exc = "none" THEN r
        ELSE IF r.exc \in UnitCatches THEN [exc |-> "none", val |-> Decimal(0 - 1, 0)]
        ELSE r

MaxNumLen == 4

NumAlphabet == {"1", "2", "5", ",", ".", "-", "K", "M", "G", "T", "b"}

\* The caller picks the argument.
UnitArgument ==
    /\ upc = "new"
    /\ \E n \in SeqsUpTo(NumAlphabet, MaxNumLen) : number' = n
    /\ upc' = "arg"
    /\ UNCHANGED <<uresult, uraised>>
    /\ UNCHANGED <<logVars, colVars, sysVars>>

UnitCall ==
    /\ upc = "arg"
    /\ LET r == unit_conversion(number) IN
        /\ uresult' = r.val
        /\ uraised' = r.exc
    /\ upc' = "ret"
    /\ UNCHANGED number
    /\ UNCHANGED <<logVars, colVars, sysVars>>

UnitNext == UnitArgument \/ UnitCall

(* Properties of unit_conversion *)

AllDigits(s) == \A i \in 1..Len(s) : s[i] \in Digits

RECURSIVE Pow10(_)
Pow10(k) == IF k = 0 THEN 1 ELSE 10 * Pow10(k - 1)

\* The ways to read s as a numeral: an optional sign, digits, and at most
\* one decimal comma or point with digits on either side, at least one
\* digit in all.
Readings(s) ==
    LET signed == s # <<>> /\ s[1] \in {"-", "+"}
        body == IF signed THEN Tail(s) ELSE s
        sign == IF signed /\ s[1] = "-" THEN 0 - 1 ELSE 1
    IN  {[sig |-> sign * NumeralValue(body), dec |-> 0] :
            x \in {y \in {body} : AllDigits(y) /\ y # <<>>}}
        \cup
        {[sig |-> sign * (NumeralValue(SubSeq(body, 1, k - 1)) * Pow10(Len(body) - k)
                          + NumeralValue(SubSeq(body, k + 1, Len(body)))),
          dec |-> Len(body) - k] :
            k \in {j \in 1..Len(body) :
                    /\ body[j] \in {",", "."}
                    /\ AllDigits(SubSeq(body, 1, j - 1))
                    /\ AllDigits(SubSeq(body, j + 1, Len(body)))
                    /\ Len(body) > 1}}

\* 2^k megabytes per unit: K = 1/1024, M = 1, G = 1024, T = 1024 * 1024
Suffixes == {"K", "M", "G", "T"}
SuffixPow2(u) == CASE u = "K" -> 0 - 10 [] u = "M" -> 0 [] u = "G" -> 10 [] u = "T" -> 20

Chars512K == <<"5", "1", "2", "K">>
Chars2G == <<"2", "G">>
Chars1c5M == <<"1", ",", "5", "M">>

\* C10: unit_conversion raises nothing; a numeral followed by K, M, G or T
\* gives the numeral times the unit's megabytes, and every other string
\* gives -1.0.
C10_UnitConversion ==
    upc = "ret" =>
        LET mant == SubSeq(number, 1, Len(number) - 1)
            valid == /\ number # <<>>
                     /\ number[Len(number)] \in Suffixes
                     /\ Readings(mant) # {}
        IN  /\ uraised = "none"
            /\ valid => \A r \in Readings(mant) :
                    uresult = TimesPow2(Decimal(r.sig, r.dec),
                                        SuffixPow2(number[Len(number)]))
            /\ ~valid => uresult = Decimal(0 - 1, 0)
            /\ number = Chars512K => uresult = Decimal(5, 1)
            /\ number = Chars2G => uresult = Decimal(2048, 0)
            /\ number = Chars1c5M => uresult = Decimal(15, 1)

C10_Witness ==
    /\ upc = "ret"
    /\ number = Chars1c5M
    /\ uresult = Decimal(15, 1)
    /\ uraised = "none"

-----------------------------------------------------------------------------
(* SystemDataCollector: how its operations end *)

\* The base class of each exception class the operations can meet
Bases ==
    [CollectorException |-> "Exception",
     CalledProcessError |-> "SubprocessError", SubprocessError |-> "Exception",
     FileNotFoundError |-> "OSError", OSError |-> "Exception",
     UnicodeDecodeError |-> "ValueError", ValueError |-> "Exception",
     IndexError |-> "LookupError", LookupError |-> "Exception",
     AttributeError |-> "Exception",
     Exception |-> "BaseException"]

\* isinstance(exc, cls), which decides whether 'except cls' catches exc
RECURSIVE IsInstance(_, _)
IsInstance(exc, cls) ==
    \/ exc = cls
    \/ exc \in DOMAIN Bases /\ IsInstance(Bases[exc], cls)

NoOutcome == [kind |-> "none", exc |-> "none", tag |-> "", cause |-> "none"]
Returned == [kind |-> "return", exc |-> "none", tag |-> "", cause |-> "none"]
Raised(exc, tag, cause) == [kind |-> "raise", exc |-> exc, tag |-> tag, cause |-> cause]

\* try: ... except <catches> as ex: raise CollectorException(tag, ex),
\* when the body raised exc ("none": it returned)
TryExcept(exc, catches, tag) ==
    IF exc = "none" THEN Returned
    ELSE IF IsInstance(exc, catches) THEN Raised("CollectorException", tag, exc)
    ELSE Raised(exc, "", "none")

\* __exec_sys_command: sub.run raises when the command cannot be started,
\* check_returncode when it exits with a non-zero status.
ExecFailures == {"FileNotFoundError", "CalledProcessError"}

get_hostname(exc) == TryExcept(exc, "CalledProcessError", "get_hostname")

get_macs(exc) == TryExcept(exc, "Exception", "get_macs")

get_temp(exc) == TryExcept(exc, "Exception", "error reading temp")

ram_usage(exc) == TryExcept(exc, "Exception", "ram_usage error")

drive_space(exc) == TryExcept(exc, "Exception", "drive_space")

processor_usage(exc) == TryExcept(exc, "Exception", "processor_usage")

drive_operations(exc) == TryExcept(exc, "Exception", "drive_operations")

\* __get_curr_intf_load: except: raise Exception
get_curr_intf_load(exc) == IF exc = "none" THEN "none" ELSE "Exception"

interface_load(exc) == TryExcept(get_curr_intf_load(exc), "Exception", "interface_load")

\* An operation that is one call: it starts from idle, meets the failure
\* exc (or none) and ends as ending says, returning value if it returns.
Operation(name, exc, ending, value) ==
    /\ spc = "idle"
    /\ sop' = name
    /\ fault' = exc
    /\ outcome' = ending
    /\ sresult' = IF ending.kind = "return" THEN value ELSE <<>>
    /\ spc' = "done"
    /\ now' = 0
    /\ counters1' = <<>>
    /\ counters2' = <<>>
    /\ first_list' = <<>>
    /\ second_list' = <<>>
    /\ t_first' = 0
    /\ t_second' = 0
    /\ UNCHANGED <<logVars, colVars, unitVars>>

\* str(stdout, 'utf-8')[:-1] of what hostname -s printed
HostnameOutputs == {<<"p", "c", "\n">>, <<"n", "o", "d", "e", "1", "\n">>}

GetHostname ==
    \E exc \in {"none", "UnicodeDecodeError"} \cup ExecFailures :
    \E stdout \in HostnameOutputs :
        /\ Operation("get_hostname", exc, get_hostname(exc),
                     SubSeq(stdout, 1, Len(stdout) - 1))
        /\ report' = <<>>

\* The two findall calls and the slices [1:] raise nothing on any text.
GetMacs ==
    \E exc \in {"none", "UnicodeDecodeError"} \cup ExecFailures :
    \E n \in 0..1 :
        /\ Operation("get_macs", exc, get_macs(exc),
                     [i \in 1..n |-> <<"eth0", "52:54:00:12:34:56">>])
        /\ report' = <<>>

\* open() fails, or int(temp) does
GetTemp ==
    \E exc \in {"none", "FileNotFoundError", "ValueError"} :
    \E temp \in {38500, 45000} :
        /\ Operation("get_temp", exc, get_temp(exc), Decimal(temp, 3))
        /\ report' = <<>>

\* str(ram_data) decodes nothing; the second line or its fields may be
\* missing (IndexError) or no integers (ValueError).
RamUsage ==
    \E exc \in {"none", "IndexError", "ValueError"} \cup ExecFailures :
    \E used \in {1024, 2048} :
        /\ Operation("ram_usage", exc, ram_usage(exc), <<4096, used>>)
        /\ report' = <<>>

\* The third line may be missing (IndexError), not match (AttributeError on
\* cpu.group) or hold no floats (ValueError).
ProcessorUsage ==
    \E exc \in {"none", "UnicodeDecodeError", "IndexError", "AttributeError",
                "ValueError"} \cup ExecFailures :
    \E us \in {15, 973} :
        /\ Operation("processor_usage", exc, processor_usage(exc),
                     <<Decimal(us, 1), Decimal(5, 1), Decimal(0, 1)>>)
        /\ report' = <<>>

DriveOperations ==
    \E exc \in {"none", "UnicodeDecodeError", "IndexError", "ValueError"}
                \cup ExecFailures :
    \E n \in 0..1 :
        /\ Operation("drive_operations", exc, drive_operations(exc),
                     [i \in 1..n |-> <<"sda", Decimal(125, 2), Decimal(310, 2)>>])
        /\ report' = <<>>

(* drive_space: the df report *)

\* b"/dev/sd"
DevSd == <<"/", "d", "e", "v", "/", "s", "d">>

\* sub in s
Contains(s, sub) ==
    \E i \in 1..(Len(s) - Len(sub) + 1) : SubSeq(s, i, i + Len(sub) - 1) = sub

\* The non-empty pieces of re.split(b' ', line)
Fields(line) == SelectSeq(Split(line, " "), LAMBDA x : x # <<>>)

\* The loop of __format_drive_space_data over sd_list from place i on
RECURSIVE format_drive_space_from(_, _, _)
format_drive_space_from(sd_list, i, ret_list) ==
    IF i > Len(sd_list) THEN [exc |-> "none", val |-> ret_list]
    ELSE LET filtered_spaces == Fields(sd_list[i])
         IN  IF Len(filtered_spaces) < 3 THEN [exc |-> "IndexError", val |-> <<>>]
             ELSE format_drive_space_from(sd_list, i + 1,
                    Append(ret_list,
                           <<SubSeq(filtered_spaces[1], 6, Len(filtered_spaces[1])),
                             unit_conversion(filtered_spaces[2]).val,
                             unit_conversion(filtered_spaces[3]).val>>))

\* __format_drive_space_data
format_drive_space_data(raw_data_str) ==
    LET raw_data_list == Split(raw_data_str, "\n")
        sd_list == SelectSeq(raw_data_list, LAMBDA x : Contains(x, DevSd))
    IN  format_drive_space_from(sd_list, 1, <<>>)

MaxDfRows == 2

\* The file systems df may report: a disk partition or a tmpfs, mounted at
\* / or at a directory whose path holds /dev/sd; df prints a row whose
\* device name is too long for its column on two lines.
DfRows ==
    [device : {<<"/", "d", "e", "v", "/", "s", "d", "a", "1">>,
               <<"t", "m", "p", "f", "s">>},
     size : {<<"2", "G">>, <<"1", ",", "5", "M">>},
     used : {<<"5", "1", "2", "K">>},
     mount : {<<"/">>, <<"/", "x", "/", "d", "e", "v", "/", "s", "d", "c">>},
     wrapped : BOOLEAN]

DfHeader == <<"F", "s", " ", " ", "S", "i", "z", "e", " ", "U", "s", "e", "d">>

\* The lines df -h prints for a row
DfText(row) ==
    LET numbers == row.size \o <<" ", " ">> \o row.used \o <<" ", "1", "G", " ", "9", "%", " ">>
                   \o row.mount
    IN  IF row.wrapped THEN <<row.device, <<" ", " ">> \o numbers>>
        ELSE <<row.device \o <<" ", " ">> \o numbers>>

RECURSIVE Flatten(_)
Flatten(ss) == IF ss = <<>> THEN <<>> ELSE Head(ss) \o Flatten(Tail(ss))

\* The stdout of df -h for the rows
DfStdout(rows) ==
    Join(<<DfHeader>> \o Flatten([i \in 1..Len(rows) |-> DfText(rows[i])]), <<"\n">>)
    \o <<"\n">>

DriveSpace ==
    /\ spc = "idle"
    /\ \E execfail \in {"none"} \cup ExecFailures :
       \E rows \in SeqsUpTo(DfRows, MaxDfRows) :
        LET parsed == format_drive_space_data(DfStdout(rows))
            exc == IF execfail # "none" THEN execfail ELSE parsed.exc
        IN  /\ Operation("drive_space", exc, drive_space(exc), parsed.val)
            /\ report' = IF execfail # "none" THEN <<>> ELSE rows

(* interface_load: the netstat report *)

\* int(s): ok = FALSE is ValueError
ParseInt(s) ==
    IF s # <<>> /\ \A i \in 1..Len(s) : s[i] \in Digits
    THEN [ok |-> TRUE, val |-> NumeralValue(s)]
    ELSE [ok |-> FALSE, val |-> 0]

\* The loop of __format_intf_load over split_data from place i on
RECURSIVE format_intf_load_from(_, _, _)
format_intf_load_from(split_data, i, ret_list) ==
    IF i > Len(split_data) THEN [exc |-> "none", val |-> ret_list]
    ELSE LET filt_str == Fields(split_data[i])
         IN  IF Len(filt_str) < 8 THEN [exc |-> "IndexError", val |-> <<>>]
             ELSE LET transmitted_int == ParseInt(filt_str[8])
                      received_int == ParseInt(filt_str[2])
                  IN  IF ~transmitted_int.ok \/ ~received_int.ok
                      THEN [exc |-> "ValueError", val |-> <<>>]
                      ELSE format_intf_load_from(split_data, i + 1,
                              Append(ret_list, <<filt_str[1], received_int.val,
                                                 transmitted_int.val>>))

\* __format_intf_load
format_intf_load(raw_str) ==
    LET all == Split(raw_str, "\n")
        split_data == SelectSeq(SubSeq(all, 3, Len(all)), LAMBDA x : x # <<>>)
    IN  format_intf_load_from(split_data, 1, <<>>)

\* diff with the two samples taken for each other
diff_first_minus_second(el1, el2) == <<el2[1], el1[2] - el2[2], el1[3] - el2[3]>>

\* diff, the local function of interface_load: n is bound twice, last to the
\* name of el2.
diff(el1, el2) == <<el2[1], el2[2] - el1[2], el2[3] - el1[3]>>

\* list(map(diff, first_list, second_list)): map stops with the shorter list.
map_diff(l1, l2) == [i \in 1..Min(Len(l1), Len(l2)) |-> diff(l1[i], l2[i])]

MaxIntf == 2

Eth0 == <<"e", "t", "h", "0">>
Lo == <<"l", "o">>

\* An interface and its counters at one moment
InterfaceRows ==
    {[name |-> Eth0, rx |-> 100, tx |-> 200], [name |-> Eth0, rx |-> 150, tx |-> 260],
     [name |-> Lo, rx |-> 100, tx |-> 200], [name |-> Lo, rx |-> 150, tx |-> 260]}

\* The decimal numeral of n
RECURSIVE Numeral(_)
Numeral(n) ==
    LET d == <<"0", "1", "2", "3", "4", "5", "6", "7", "8", "9">>[(n % 10) + 1]
    IN  IF n < 10 THEN <<d>> ELSE Append(Numeral(n \div 10), d)

NetstatLine(row) ==
    row.name \o <<" ", " ">> \o Numeral(row.rx)
    \o <<" ", "0", " ", "0", " ", "0", " ", "0", " ", "0", " ">>
    \o Numeral(row.tx) \o <<" ", "0", " ", "B", "M", "R", "U">>

\* A line netstat should not print: too few columns, or no number
GarbledLines ==
    [none |-> <<>>,
     short |-> <<"w", "l", "0", " ", "1", "0", "0">>,
     nonint |-> <<"w", "l", "0", " ", "-", " ", "0", " ", "0", " ", "0", " ", "0",
                  " ", "0", " ", "-", " ", "0">>]

\* The stdout of netstat -i: two header lines, a line for each interface
NetstatStdout(rows, garble) ==
    Join(<<<<"K", "e", "r", "n", "e", "l">>, <<"I", "f", "a", "c", "e">>>>
         \o [i \in 1..Len(rows) |-> NetstatLine(rows[i])]
         \o <<GarbledLines[garble]>>, <<"\n">>)
    \o <<"\n">>

\* interface_load up to the first __get_curr_intf_load
InterfaceLoadFirst ==
    /\ spc = "idle"
    /\ \E execfail \in {"none"} \cup ExecFailures :
       \E rows \in SeqsUpTo(InterfaceRows, MaxIntf) :
       \E garble \in DOMAIN GarbledLines :
        LET parsed == format_intf_load(NetstatStdout(rows, garble))
            exc == IF execfail # "none" THEN execfail ELSE parsed.exc
        IN  /\ sop' = "interface_load"
            /\ fault' = exc
            /\ counters1' = IF exc = "none" THEN rows ELSE <<>>
            /\ first_list' = IF exc = "none" THEN parsed.val ELSE <<>>
            /\ outcome' = IF exc = "none" THEN NoOutcome ELSE interface_load(exc)
            /\ spc' = IF exc = "none" THEN "sampled" ELSE "done"
    /\ now' = 0
    /\ t_first' = 0
    /\ t_second' = 0
    /\ counters2' = <<>>
    /\ second_list' = <<>>
    /\ sresult' = <<>>
    /\ report' = <<>>
    /\ UNCHANGED <<logVars, colVars, unitVars>>

\* time.sleep(1)
InterfaceLoadSleep ==
    /\ spc = "sampled"
    /\ now' = now + 1
    /\ spc' = "slept"
    /\ UNCHANGED <<sop, fault, counters1, counters2, first_list, second_list, t_first,
                   t_second, report, sresult, outcome>>
    /\ UNCHANGED <<logVars, colVars, unitVars>>

\* interface_load from the second __get_curr_intf_load to its end
InterfaceLoadSecond ==
    /\ spc = "slept"
    /\ \E execfail \in {"none"} \cup ExecFailures :
       \E rows \in SeqsUpTo(InterfaceRows, MaxIntf) :
       \E garble \in DOMAIN GarbledLines :
        LET parsed == format_intf_load(NetstatStdout(rows, garble))
            exc == IF execfail # "none" THEN execfail ELSE parsed.exc
        IN  /\ fault' = exc
            /\ counters2' = IF exc = "none" THEN rows ELSE <<>>
            /\ second_list' = IF exc = "none" THEN parsed.val ELSE <<>>
            /\ outcome' = interface_load(exc)
            /\ sresult' = IF exc = "none" THEN map_diff(first_list, parsed.val) ELSE <<>>
    /\ t_second' = now
    /\ spc' = "done"
    /\ UNCHANGED <<sop, now, counters1, first_list, t_first, report>>
    /\ UNCHANGED <<logVars, colVars, unitVars>>

\* The caller has the result or the exception; the collector keeps nothing
\* of an operation for the next one.
SysReturn ==
    /\ spc = "done"
    /\ spc' = "idle"
    /\ sop' = "none"
    /\ fault' = "none"
    /\ now' = 0
    /\ counters1' = <<>>
    /\ counters2' = <<>>
    /\ first_list' = <<>>
    /\ second_list' = <<>>
    /\ t_first' = 0
    /\ t_second' = 0
    /\ report' = <<>>
    /\ sresult' = <<>>
    /\ outcome' = NoOutcome
    /\ UNCHANGED <<logVars, colVars, unitVars>>

SysNext ==
    \/ SysReturn
    \/ GetHostname
    \/ GetMacs
    \/ GetTemp
    \/ RamUsage
    \/ DriveSpace
    \/ ProcessorUsage
    \/ DriveOperations
    \/ InterfaceLoadFirst
    \/ InterfaceLoadSleep
    \/ InterfaceLoadSecond

(* Properties of SystemDataCollector *)

\* C7 as stated: an operation that does not return raises CollectorException
\* with an operation tag and the failure that caused it; nothing else escapes
\* and nothing is returned beside an error.
C7_UniformError ==
    outcome.kind = "raise" =>
        /\ outcome.exc = "CollectorException"
        /\ outcome.tag # ""
        /\ outcome.cause = fault
        /\ sresult = <<>>

\* C8 as stated: the result has one entry for each interface of the samples,
\* entry i holding the name and the differences of the counters at place i.
C8_OneEntryPerInterface ==
    sop = "interface_load" /\ outcome.kind = "return" =>
        /\ t_first < t_second
        /\ Len(sresult) = Len(counters1)
        /\ Len(sresult) = Len(counters2)
        /\ \A i \in 1..Len(sresult) :
            sresult[i] = <<counters2[i].name, counters2[i].rx - counters1[i].rx,
                           counters2[i].tx - counters1[i].tx>>

\* C8 amended: the second sample is taken one sleep after the first, and the
\* result has one entry for each place that both samples have (as many as
\* the shorter sample), entry i holding the name at place i of the second
\* sample and the differences, second minus first, of the counters at
\* place i whatever the names there.
C8_PositionalDelta ==
    sop = "interface_load" /\ outcome.kind = "return" =>
        /\ t_second = t_first + 1
        /\ Len(sresult) = Min(Len(counters1), Len(counters2))
        /\ \A i \in 1..Len(sresult) :
            sresult[i] = <<counters2[i].name, counters2[i].rx - counters1[i].rx,
                           counters2[i].tx - counters1[i].tx>>
        /\ (/\ counters1 = <<[name |-> Eth0, rx |-> 100, tx |-> 200]>>
            /\ counters2 = <<[name |-> Eth0, rx |-> 150, tx |-> 260]>>)
              => sresult = <<<<Eth0, 50, 60>>>>

C8_Witness ==
    /\ sop = "interface_load"
    /\ outcome.kind = "return"
    /\ counters1 = <<[name |-> Eth0, rx |-> 100, tx |-> 200],
                     [name |-> Lo, rx |-> 150, tx |-> 260]>>
    /\ counters2 = <<[name |-> Lo, rx |-> 150, tx |-> 260]>>
    /\ sresult = <<<<Lo, 50, 60>>>>

\* C9 as stated: drive_space returns, in report order, an entry for each
\* file system whose device name holds /dev/sd and for no other line: the
\* device name without its first 5 characters, and the sizes converted.
C9_DeviceFieldFilter ==
    sop = "drive_space" /\ outcome.kind = "return" =>
        LET kept == SelectSeq(report, LAMBDA row : Contains(row.device, DevSd))
        IN  /\ Len(sresult) = Len(kept)
            /\ \A i \in 1..Len(kept) :
                sresult[i] = <<SubSeq(kept[i].device, 6, Len(kept[i].device)),
                               unit_conversion(kept[i].size).val,
                               unit_conversion(kept[i].used).val>>

-----------------------------------------------------------------------------
ColInit ==
    /\ cpc = "start"
    /\ src = <<>>
    /\ raw = <<>>
    /\ lines = <<>>
    /\ idx = 1
    /\ out = <<>>
    /\ cerr = "none"

UnitInit ==
    /\ upc = "new"
    /\ number = <<>>
    /\ uresult = Decimal(0, 0)
    /\ uraised = "none"

SysInit ==
    /\ spc = "idle"
    /\ sop = "none"
    /\ fault = "none"
    /\ now = 0
    /\ counters1 = <<>>
    /\ counters2 = <<>>
    /\ first_list = <<>>
    /\ second_list = <<>>
    /\ t_first = 0
    /\ t_second = 0
    /\ report = <<>>
    /\ sresult = <<>>
    /\ outcome = NoOutcome

Init == LogInit /\ ColInit /\ UnitInit /\ SysInit

\* The option builder of JournalLogCollector
Spec == Init /\ [][LogNext]_vars

\* JournalLogCollector.collect on the output of one run of the command
SpecCollect == Init /\ [][ColNext]_vars

\* unit_conversion on one argument
SpecUnit == Init /\ [][UnitNext]_vars

\* The operations of SystemDataCollector, one after the other
SpecSys == Init /\ [][SysNext]_vars

=============================================================================
